---- MODULE Spec2Model ----
(***************************************************************************)
(* Request orchestration and model lifecycle of the Inpaint Anything API.  *)
(*                                                                         *)
(*   - the Model Registry (api/services/model_loader.py): three handles,   *)
(*     loaded once by coroutines that offload the construction to the      *)
(*     executor;                                                           *)
(*   - the readiness route (api/routes/health.py);                         *)
(*   - the Pipeline Orchestrator (api/services/inpaint_service.py) driven  *)
(*     by the three routes of api/routes/inpaint.py, the request models of *)
(*     api/models/requests.py and the validators of utils/image_utils.py.  *)
(*                                                                         *)
(* One serving loop runs the coroutines; a step of a coroutine between two *)
(* suspensions is one action.  Work handed to run_in_executor is a         *)
(* separate action of the worker pool.                                     *)
(***************************************************************************)
EXTENDS Integers, Sequences, FiniteSets, TLC

VARIABLES
    handle,     \* ModelLoader._sam_predictor / _lama_model / _sd_pipeline
    syncRuns,   \* how many times each _load_*_sync has been run
    load,       \* the load calls (coroutines) and their sub-tasks
    fileOk,     \* whether the checkpoint/config files of a model exist
    samBound,   \* the image the shared SamPredictor is currently set to
    req,        \* the requests to /remove, /fill and /replace
    ready,      \* the answers of GET /ready
    probe,      \* the answers of the get methods and of GET /health
    settings    \* config.settings: environment and use_mock_service

vars ==
    <<handle, syncRuns, load, fileOk, samBound, req, ready, probe, settings>>

(***************************************************************************)
(* Settings and exceptions                                                 *)
(***************************************************************************)
max_image_size == 2048
max_file_size == 10485760

\* utils/exceptions.py: the subclasses of InpaintException.
DomainExceptions ==
    {"ModelNotLoadedException", "InvalidImageException",
     "ProcessingTimeoutException", "InvalidCoordinatesException",
     "FileTooLargeException", "UnsupportedImageFormatException"}

\* The defaults of Settings: environment "development", no mock service.
DefaultSettings == [environment |-> "development", use_mock_service |-> FALSE]

\* An exception: its class and the text of str(e).
Exc(cls, text) == [cls |-> cls, text |-> text]
NoExc == Exc("none", "none")

\* An exception of a model library.
ModelError == Exc("RuntimeError", "model_detail")

(***************************************************************************)
(* Model Registry                                                          *)
(***************************************************************************)
Models == {"sam", "lama", "sd"}

\* A handle is None (the empty tuple) or <<n>>: the object made by the n-th
\* run of the model's synchronous loader.
NoHandle == <<>>

\* The load calls: the one of the lifespan, and explicit calls of the
\* public load methods.
LifespanCaller == "lifespan"
ExplicitCallers == {"c1"}
Callers == {LifespanCaller} \cup ExplicitCallers

\* exc: the first exception one of the call's coroutines raised, which is
\* the one the call raises.
IdleLoad ==
    [kind |-> "none", st |-> "idle",
     sub |-> [m \in Models |-> "none"],
     obj |-> [m \in Models |-> NoHandle],
     exc |-> NoExc]

Targets(kind) == IF kind = "all" THEN Models ELSE {kind}

\* Path(...).exists() of load_sam_model and load_lama_model; load_sd_pipeline
\* checks no file.
FilesExist(m) == IF m = "sd" THEN TRUE ELSE fileOk[m]

\* FirstSegment with the test of the handle left out.
FirstSegment_NoMemo(m) ==
    IF ~FilesExist(m) THEN "failed" ELSE "awaiting"

\* FirstSegment that remembers a failure: once a load of m has failed,
\* every later call fails without trying.
FirstSegment_MemoFailure(m) ==
    IF handle[m] # NoHandle THEN "done"
    ELSE IF \/ ~FilesExist(m)
            \/ \E c \in Callers : load[c].sub[m] = "failed"
    THEN "failed"
    ELSE "awaiting"

\* The first segment of load_<m>: memo check, file check, hand-off to the
\* executor.  It reads the handle and suspends at run_in_executor.
FirstSegment(m) ==
    IF handle[m] # NoHandle THEN "done"
    ELSE IF ~FilesExist(m) THEN "failed"
    ELSE "awaiting"

\* raise FileNotFoundError(f"SAM checkpoint not found: ...") and the two of
\* load_lama_model.
FileNotFound(m) ==
    Exc("FileNotFoundError",
        IF m = "sam" THEN "sam_checkpoint_not_found" ELSE "lama_file_not_found")

\* The coroutines of a call start in the order sam, lama, sd: the first of
\* them that fails in its first segment.
FirstRaised(kind) ==
    IF "sam" \in Targets(kind) /\ FirstSegment("sam") = "failed"
    THEN FileNotFound("sam")
    ELSE IF "lama" \in Targets(kind) /\ FirstSegment("lama") = "failed"
    THEN FileNotFound("lama")
    ELSE NoExc

\* load_all_models() or load_<kind>() is called: every coroutine it starts
\* runs up to its first suspension.
LoadCall(c, kind) ==
    /\ load[c].st = "idle"
    /\ load' = [load EXCEPT ![c] =
                 [kind |-> kind, st |-> "awaiting",
                  sub |-> [m \in Models |->
                             IF m \in Targets(kind) THEN FirstSegment(m)
                             ELSE "none"],
                  obj |-> [m \in Models |->
                             IF m \in Targets(kind) THEN handle[m]
                             ELSE NoHandle],
                  exc |-> FirstRaised(kind)]]
    /\ UNCHANGED <<handle, syncRuns, fileOk, samBound, req, ready, probe,
                   settings>>

\* _load_<m>_sync on the worker pool: constructs a new model object, or the
\* model library raises.
SyncLoad(c, m) ==
    /\ load[c].sub[m] = "awaiting"
    /\ syncRuns' = [syncRuns EXCEPT ![m] = @ + 1]
    /\ \/ load' = [load EXCEPT ![c].sub[m] = "built",
                               ![c].obj[m] = <<syncRuns[m] + 1>>]
       \/ load' = [load EXCEPT ![c].sub[m] = "sync_raised"]
    /\ UNCHANGED <<handle, fileOk, samBound, req, ready, probe, settings>>

\* load_<m> resumes after run_in_executor: stores the handle, or the
\* loader's exception propagates.
LoadResume(c, m) ==
    /\ \/ /\ load[c].sub[m] = "built"
          /\ handle' = [handle EXCEPT ![m] = load[c].obj[m]]
          /\ load' = [load EXCEPT ![c].sub[m] = "done"]
       \/ /\ load[c].sub[m] = "sync_raised"
          /\ load' = [load EXCEPT ![c].sub[m] = "failed",
                                   ![c].exc = IF @ = NoExc THEN ModelError
                                              ELSE @]
          /\ UNCHANGED handle
    /\ UNCHANGED <<syncRuns, fileOk, samBound, req, ready, probe, settings>>

\* LoadReturn with a roll-back: a failed call unsets the handles of its
\* models.
LoadReturn_RollsBack(c) ==
    /\ load[c].st = "awaiting"
    /\ \/ /\ \E m \in Targets(load[c].kind) : load[c].sub[m] = "failed"
          /\ load' = [load EXCEPT ![c].st = "raised"]
          /\ handle' = [m \in Models |->
                          IF m \in Targets(load[c].kind) THEN NoHandle
                          ELSE handle[m]]
       \/ /\ \A m \in Targets(load[c].kind) : load[c].sub[m] = "done"
          /\ load' = [load EXCEPT ![c].st = "returned"]
          /\ UNCHANGED handle
    /\ UNCHANGED <<syncRuns, fileOk, samBound, req, ready, probe, settings>>

\* LoadReturn that cancels the coroutines still running when it raises.
LoadReturn_CancelsSiblings(c) ==
    /\ load[c].st = "awaiting"
    /\ \/ /\ \E m \in Targets(load[c].kind) : load[c].sub[m] = "failed"
          /\ load' = [load EXCEPT
                        ![c].st = "raised",
                        ![c].sub = [m \in Models |->
                                      IF @[m] \in {"awaiting", "built"}
                                      THEN "cancelled" ELSE @[m]]]
       \/ /\ \A m \in Targets(load[c].kind) : load[c].sub[m] = "done"
          /\ load' = [load EXCEPT ![c].st = "returned"]
    /\ UNCHANGED <<handle, syncRuns, fileOk, samBound, req, ready, probe,
                   settings>>

\* The caller of the load gets its result: the first failure is raised at
\* once (asyncio.gather, return_exceptions=False) as load[c].exc, the result
\* is returned when every coroutine has finished.
LoadReturn(c) ==
    /\ load[c].st = "awaiting"
    /\ \/ /\ \E m \in Targets(load[c].kind) : load[c].sub[m] = "failed"
          /\ load' = [load EXCEPT ![c].st = "raised"]
       \/ /\ \A m \in Targets(load[c].kind) : load[c].sub[m] = "done"
          /\ load' = [load EXCEPT ![c].st = "returned"]
    /\ UNCHANGED <<handle, syncRuns, fileOk, samBound, req, ready, probe,
                   settings>>

(***************************************************************************)
(* Startup (api/main.py, lifespan)                                         *)
(***************************************************************************)
\* The startup part of lifespan begins: with the mock toggle on it only
\* logs; otherwise it awaits model_loader.load_all_models().
lifespan ==
    /\ ~settings.use_mock_service
    /\ LoadCall(LifespanCaller, "all")

\* lifespan has reached its yield, so the server accepts requests: at once
\* with the mock toggle on, else when load_all_models has returned, or has
\* raised and the except clause did not re-raise (it does in the
\* environment "production").
Serving ==
    \/ settings.use_mock_service
    \/ load[LifespanCaller].st = "returned"
    \/ /\ load[LifespanCaller].st = "raised"
       /\ settings.environment # "production"

\* lifespan re-raised the failure of the load: startup fails.
StartupFailed ==
    /\ ~settings.use_mock_service
    /\ load[LifespanCaller].st = "raised"
    /\ settings.environment = "production"

get_sam_predictor == handle["sam"]
get_lama_model == handle["lama"]
get_sd_pipeline == handle["sd"]

\* is_ready with the check of the diffusion pipeline left out.
is_ready_TwoOfThree ==
    /\ handle["sam"] # NoHandle
    /\ handle["lama"] # NoHandle

is_ready ==
    /\ handle["sam"] # NoHandle
    /\ handle["lama"] # NoHandle
    /\ handle["sd"] # NoHandle

\* The answer of the latest read of the registry: the method or route, what
\* it returned, and seq, which alternates with every answer.
Answer(op, value, code, status, flags, seq) ==
    [op |-> op, value |-> value, code |-> code, status |-> status,
     flags |-> flags, seq |-> seq]

NoProbe ==
    Answer("none", NoHandle, "none", "none", [m \in Models |-> FALSE], FALSE)

GetName(m) ==
    IF m = "sam" THEN "get_sam_predictor"
    ELSE IF m = "lama" THEN "get_lama_model"
    ELSE "get_sd_pipeline"

GetValue(m) ==
    IF m = "sam" THEN get_sam_predictor
    ELSE IF m = "lama" THEN get_lama_model
    ELSE get_sd_pipeline

\* A get that loads the model when it finds no handle.
Get_StartsLoad(m) ==
    /\ probe' = Answer(GetName(m), GetValue(m), "none", "none",
                       NoProbe.flags, ~probe.seq)
    /\ load' = IF handle[m] = NoHandle /\ load[LifespanCaller].st = "awaiting"
               THEN [load EXCEPT ![LifespanCaller].sub[m] = "awaiting"]
               ELSE load
    /\ UNCHANGED <<handle, syncRuns, fileOk, samBound, req, ready, settings>>

\* get_sam_predictor() / get_lama_model() / get_sd_pipeline() is called: a
\* plain method, it returns the attribute.
Get(m) ==
    /\ probe' = Answer(GetName(m), GetValue(m), "none", "none",
                       NoProbe.flags, ~probe.seq)
    /\ UNCHANGED <<handle, syncRuns, load, fileOk, samBound, req, ready,
                   settings>>

(***************************************************************************)
(* GET /health                                                             *)
(***************************************************************************)
\* models_status; the key "stable_diffusion" is "sd" here.
models_status ==
    [m \in Models |-> GetValue(m) # NoHandle]

\* The status with any() in the place of all().
HealthStatus_Any(flags) ==
    IF \E m \in Models : flags[m] THEN "healthy" ELSE "partial"

\* status = "healthy" if all(models_status.values()) else "partial"
HealthStatus(flags) ==
    IF \A m \in Models : flags[m] THEN "healthy" ELSE "partial"

\* return HealthResponse(...): the route answers 200.
health_check ==
    /\ probe' = Answer("health_check", NoHandle, "200",
                       HealthStatus(models_status), models_status, ~probe.seq)
    /\ UNCHANGED <<handle, syncRuns, load, fileOk, samBound, req, ready,
                   settings>>

(***************************************************************************)
(* GET /ready                                                              *)
(***************************************************************************)
\* last: the status of the latest answer; seq: alternates with every
\* answer, so that two answers in a row differ.
NoReady == [last |-> "none", seq |-> FALSE]

readiness_check ==
    /\ ready' = [last |-> IF ~is_ready THEN "503" ELSE "200",
                 seq |-> ~ready.seq]
    /\ UNCHANGED <<handle, syncRuns, load, fileOk, samBound, req, probe,
                   settings>>

(***************************************************************************)
(* Text prompts: strings are sequences of characters.                      *)
(***************************************************************************)
RECURSIVE LStrip(_)
LStrip(s) == IF s # <<>> /\ Head(s) = " " THEN LStrip(Tail(s)) ELSE s

RECURSIVE RStrip(_)
RStrip(s) ==
    IF s # <<>> /\ s[Len(s)] = " " THEN RStrip(SubSeq(s, 1, Len(s) - 1)) ELSE s

\* str.strip()
Strip(s) == RStrip(LStrip(s))

\* re.sub(r'[<>"\']', '', s)
Forbidden == {"<", ">", "\"", "'"}
Sanitize_AnglesOnly(s) == SelectSeq(s, LAMBDA c : c \notin {">"})
Sanitize(s) == SelectSeq(s, LAMBDA c : c \notin Forbidden)

(***************************************************************************)
(* Request models (api/models/requests.py).  A validator yields "ok" or    *)
(* the reason of its ValueError.                                           *)
(***************************************************************************)
RECURSIVE CoordsLoop(_)
CoordsLoop(v) ==
    IF v = <<>> THEN "ok"
    ELSE IF Len(Head(v)) # 2 THEN "coord_arity"
    ELSE IF Head(v)[1] < 0 \/ Head(v)[2] < 0 THEN "coord_negative"
    ELSE CoordsLoop(Tail(v))

Req_validate_point_coords(v) ==
    IF v = <<>> THEN "coords_empty" ELSE CoordsLoop(v)

RECURSIVE LabelsLoop(_)
LabelsLoop(v) ==
    IF v = <<>> THEN "ok"
    ELSE IF Head(v) \notin {0, 1} THEN "label_value"
    ELSE LabelsLoop(Tail(v))

\* values holds point_coords only when point_coords passed its validator.
Req_validate_point_labels(v, coords) ==
    IF v = <<>> THEN "labels_empty"
    ELSE IF Req_validate_point_coords(coords) = "ok" /\ Len(v) # Len(coords)
         THEN "label_count"
    ELSE LabelsLoop(v)

\* dilate_kernel_size: Optional[int], ge=0, le=50.  <<>> is None.
Req_dilate_ok(d) == d = <<>> \/ (d[1] >= 0 /\ d[1] <= 50)

\* text_prompt: min_length=1, max_length=1000, then validate_text_prompt.
Req_validate_text_prompt(v) ==
    IF Len(v) < 1 \/ Len(v) > 1000 THEN "prompt_length"
    ELSE IF Strip(v) = <<>> THEN "prompt_blank"
    ELSE IF Len(Sanitize(Strip(v))) < 1 THEN "prompt_no_valid_chars"
    ELSE "ok"

\* num_inference_steps: Optional[int], default 50, ge=10, le=150.
Req_steps_ok(n) == n = <<>> \/ (n[1] >= 10 /\ n[1] <= 150)

\* ImageRequest.validate_image_data, on the payload of image_data.
Req_validate_image_data(p) ==
    IF p.kind = "none" THEN "ok"
    ELSE IF p.blank THEN "image_data_empty"
    ELSE IF ~p.chars_ok THEN "image_data_base64"
    ELSE "ok"

HasPrompt(op) == op \in {"fill", "replace"}

\* The first validator of <Op>Request / <Op>ImageRequest that rejects the
\* fields, "ok" when none does.
RequestModel(op, f) ==
    LET checks ==
          <<Req_validate_point_coords(f.coords),
            Req_validate_point_labels(f.labels, f.coords),
            IF "dilate_kernel_size" \in f.omitted \/ Req_dilate_ok(f.dilate)
            THEN "ok" ELSE "dilate_range",
            IF HasPrompt(op) THEN Req_validate_text_prompt(f.prompt) ELSE "ok",
            IF /\ op = "replace" /\ "num_inference_steps" \notin f.omitted
               /\ ~Req_steps_ok(f.steps)
            THEN "steps_range" ELSE "ok">>
        bad == {i \in 1..Len(checks) : checks[i] # "ok"}
    IN  IF bad = {} THEN "ok"
        ELSE checks[CHOOSE i \in bad : \A j \in bad : i <= j]

\* req_data: the fields as the request model holds them: the prompt is
\* replaced by the validator's return value, an omitted key by the default
\* of its Field.
ReqData(op, f) ==
    [coords |-> f.coords, labels |-> f.labels,
     dilate |-> IF "dilate_kernel_size" \in f.omitted THEN <<>> ELSE f.dilate,
     prompt |-> IF HasPrompt(op) THEN Sanitize(Strip(f.prompt)) ELSE f.prompt,
     steps |-> IF "num_inference_steps" \in f.omitted THEN <<50>>
               ELSE f.steps,
     omitted |-> {}]

(***************************************************************************)
(* Image Codec (utils/image_utils.py).  A payload is what the caller sent  *)
(* as image_data or as the uploaded file:                                  *)
(*   kind      "none" (not supplied), "data" (supplied), "param_default"   *)
(*             (the File(None) default object of get_image_from_request)   *)
(*   blank     the string is empty or whitespace                           *)
(*   chars_ok  the string matches the base64 character pattern             *)
(*   b64_ok    base64.b64decode accepts it                                 *)
(*   size      the number of bytes                                         *)
(*   fmt       image.format as PIL reports it, "junk" when Image.open      *)
(*             fails                                                       *)
(*   ctype     the content type of an upload                               *)
(***************************************************************************)
\* An image or pixel buffer: its height and width and its PIL mode, "L" for
\* a two-dimensional array (a mask), "RGB" for three channels, "RGBA" for
\* four.
Img(id, h, w, mode) == [id |-> id, h |-> h, w |-> w, mode |-> mode]

\* The small images of the requests, and images around and above
\* max_image_size for the codec.
Images ==
    {Img("A", 1, 2, "RGB"), Img("B", 2, 1, "RGB"),
     Img("Edge", 1, max_image_size, "RGB"),
     Img("Square", max_image_size, max_image_size, "RGB"),
     Img("Wide", 1024, 4096, "RGB"),
     Img("Tall", 4096, 2, "RGB"),
     Img("Over", max_image_size, max_image_size + 1, "RGB"),
     Img("Strip", 1, 5000, "RGB"),
     Img("Pole", max_image_size + 1, 1, "RGB"),
     Img("Odd", 1000, 2215, "RGB"),
     Img("OddTall", 2215, 1000, "RGB"),
     Img("MaskA", 1, 2, "L"),
     Img("MaskEdge", max_image_size, 1, "L"),
     Img("Rgba", 2, 1, "RGBA")}

NoImage == Img("none", 0, 0, "none")

ImageOf(i) == CHOOSE im \in Images : im.id = i

Max2(a, b) == IF a >= b THEN a ELSE b

\* The larger sides m, among those of Images, for which the double product
\* m * (max_image_size / m) is below max_image_size: ratio is rounded down
\* and the product is not rounded back up (2215 * (2048 / 2215) is
\* 2047.9999999999998).
RoundsBelow == {2215}

\* int(dim * ratio) with ratio = max_image_size / m in double arithmetic:
\* the floor of the exact quotient, except where the product of the larger
\* side itself falls short of max_image_size.
ScaledSide(dim, m) ==
    IF dim = m /\ m \in RoundsBelow THEN max_image_size - 1
    ELSE (dim * max_image_size) \div m

\* "Resize if too large": new_size = int(dim * ratio) for each side.
Resize(im) ==
    IF Max2(im.w, im.h) > max_image_size
    THEN Img(im.id, ScaledSide(im.h, Max2(im.w, im.h)),
             ScaledSide(im.w, Max2(im.w, im.h)), im.mode)
    ELSE im

\* if image.mode != 'RGB': image = image.convert('RGB')
ConvertRGB(im) == IF im.mode # "RGB" THEN [im EXCEPT !.mode = "RGB"] ELSE im

\* The number of channels of np.array(image).
Channels(im) ==
    IF im.mode = "L" THEN 1 ELSE IF im.mode = "RGB" THEN 3
    ELSE IF im.mode = "RGBA" THEN 4 ELSE 0

Decoded(e, im) == [exc |-> e, image |-> im]

\* The body shared by decode_base64_image (after b64decode) and
\* load_image_from_file.
OpenImage(p, im, what) ==
    IF p.size > max_file_size
    THEN Decoded(Exc("FileTooLargeException", "size_exceeds_limit"), NoImage)
    ELSE IF p.fmt = "junk"
    THEN Decoded(Exc("InvalidImageException", what), NoImage)
    ELSE IF p.fmt \notin {"JPEG", "PNG", "WebP"}
    THEN Decoded(Exc("UnsupportedImageFormatException", "unsupported_format"),
                 NoImage)
    ELSE IF Resize(im).h < 1 \/ Resize(im).w < 1
    THEN \* image.resize raises ValueError for a side of 0; the except
         \* clause wraps it.
         Decoded(Exc("InvalidImageException", what), NoImage)
    ELSE Decoded(NoExc, Resize(ConvertRGB(im)))

decode_base64_image(p, im) ==
    IF ~p.b64_ok
    THEN Decoded(Exc("InvalidImageException", "decode_failed"), NoImage)
    ELSE OpenImage(p, im, "decode_failed")

load_image_from_file(p, im) == OpenImage(p, im, "load_failed")

\* Point validation of the service.  A validator yields "ok" or the reason
\* of its InvalidImageException.
RECURSIVE validate_coordinates(_, _, _)
validate_coordinates(coords, height, width) ==
    IF coords = <<>> THEN "ok"
    ELSE IF Len(Head(coords)) # 2 THEN "coord_arity"
    ELSE IF ~(/\ 0 <= Head(coords)[1] /\ Head(coords)[1] <= width
              /\ 0 <= Head(coords)[2] /\ Head(coords)[2] <= height)
         THEN "coord_bounds"
    ELSE validate_coordinates(Tail(coords), height, width)

\* validate_point_labels with the comparison of the two lengths left out.
validate_point_labels_NoCount(labels, coords_count) ==
    IF \E i \in 1..Len(labels) : labels[i] \notin {0, 1}
    THEN "label_value"
    ELSE "ok"

validate_point_labels(labels, coords_count) ==
    IF Len(labels) # coords_count THEN "label_count"
    ELSE IF \E i \in 1..Len(labels) : labels[i] \notin {0, 1}
         THEN "label_value"
    ELSE "ok"

(***************************************************************************)
(* Routes (api/routes/inpaint.py) and exception handlers (api/main.py)     *)
(***************************************************************************)
get_image_from_request(image, image_data, im) ==
    IF image.kind # "none"
    THEN IF image.kind = "param_default"
         THEN Decoded(Exc("AttributeError", "no_attribute_content_type"),
                      NoImage)
         ELSE IF image.ctype \notin {"image/jpeg", "image/png", "image/webp"}
         THEN Decoded(Exc("InvalidImageException", "unsupported_image_type"),
                      NoImage)
         ELSE load_image_from_file(image, im)
    ELSE IF image_data.kind # "none"
    THEN decode_base64_image(image_data, im)
    ELSE Decoded(Exc("InvalidImageException", "image_required"), NoImage)

NoPayload ==
    [kind |-> "none", blank |-> FALSE, chars_ok |-> TRUE, b64_ok |-> TRUE,
     size |-> 0, fmt |-> "junk", ctype |-> "none"]

\* image: Optional[UploadFile] = File(None), when the helper is called
\* without that argument.
ParamDefault == [NoPayload EXCEPT !.kind = "param_default"]

Parsed(e, im, d) == [exc |-> e, image |-> im, data |-> d]

\* "Parse request data" of remove_object / fill_object / replace_object.
\* in.body says whether the JSON body was bound (body is not None).
ParseRequest(in) ==
    LET im == ImageOf(in.img) IN
    IF in.path = "json"
    THEN LET d == get_image_from_request(ParamDefault, in.image_data, im)
         IN  Parsed(d.exc, d.image, ReqData(in.op, in.fields))
    ELSE IF in.reqText = "none"
    THEN Parsed(Exc("InvalidImageException", "request_required"),
                NoImage, in.fields)
    ELSE IF in.reqText = "unparseable"
    THEN Parsed(Exc("JSONDecodeError", "json_detail"), NoImage, in.fields)
    ELSE IF in.reqText = "not_object"
    THEN Parsed(Exc("TypeError", "type_detail"), NoImage, in.fields)
    ELSE IF RequestModel(in.op, in.fields) # "ok"
    THEN Parsed(Exc("ValidationError", RequestModel(in.op, in.fields)),
                NoImage, in.fields)
    ELSE LET d == get_image_from_request(in.upload, NoPayload, im)
         IN  Parsed(d.exc, d.image, ReqData(in.op, in.fields))

\* The answer to a request.
Response(status, success, code, message, mask, result) ==
    [status |-> status, success |-> success, error_code |-> code,
     message |-> message, mask_hw |-> mask, result_hw |-> result]

NoResp == Response("none", "none", "none", "none", <<>>, <<>>)

\* @app.exception_handler(HTTPException)
http_exception_handler(status_code, detail) ==
    Response(status_code, "false", "HTTPException", detail, <<>>, <<>>)

\* The except clauses with str(e) as the detail of the 500 as well.
RouteExcept_LeaksDetail(e) ==
    IF e.cls \in DomainExceptions
    THEN http_exception_handler("400", e.text)
    ELSE http_exception_handler("500", e.text)

\* The two except clauses of a route.
RouteExcept(e) ==
    IF e.cls \in DomainExceptions
    THEN http_exception_handler("400", e.text)
    ELSE http_exception_handler("500", "Internal server error")

\* return InpaintResponse(...)
RouteReturn(mask, result) ==
    Response("200", "true", "none", "success", mask, result)

\* FastAPI's answer to a body its request model rejects.
RequestValidationError(reason) ==
    Response("422", "absent", "absent", reason, <<>>, <<>>)

(***************************************************************************)
(* Pipeline Orchestrator (api/services/inpaint_service.py)                 *)
(***************************************************************************)
Ops == {"remove", "fill", "replace"}
Reqs == {"r1", "r2"}

\* The handle the terminal stage of an operation needs.
TerminalModel(op) == IF op = "remove" THEN "lama" ELSE "sd"

\* The library function the terminal stage calls.
TerminalCall(op) ==
    IF op = "remove" THEN "inpaint_img_with_builded_lama"
    ELSE IF op = "fill" THEN "fill_img_with_sd"
    ELSE "replace_img_with_sd"

\* ServiceChecks with the check of the terminal model's handle left out.
ServiceChecks_NoTerminalCheck(op, image, d) ==
    LET vc == validate_coordinates(d.coords, image.h, image.w)
        vl == validate_point_labels(d.labels, Len(d.coords))
    IN  IF vc # "ok" THEN Exc("InvalidImageException", vc)
        ELSE IF vl # "ok" THEN Exc("InvalidImageException", vl)
        ELSE IF HasPrompt(op) /\ Strip(d.prompt) = <<>>
             THEN Exc("InvalidImageException", "prompt_empty")
        ELSE IF get_sam_predictor = NoHandle
             THEN Exc("ModelNotLoadedException", "sam_not_loaded")
        ELSE NoExc

\* remove_object / fill_object / replace_background up to the first model
\* call: the exception raised, NoExc when the segmentation stage is reached.
ServiceChecks(op, image, d) ==
    LET vc == validate_coordinates(d.coords, image.h, image.w)
        vl == validate_point_labels(d.labels, Len(d.coords))
    IN  IF vc # "ok" THEN Exc("InvalidImageException", vc)
        ELSE IF vl # "ok" THEN Exc("InvalidImageException", vl)
        ELSE IF HasPrompt(op) /\ Strip(d.prompt) = <<>>
             THEN Exc("InvalidImageException", "prompt_empty")
        ELSE IF get_sam_predictor = NoHandle
             THEN Exc("ModelNotLoadedException", "sam_not_loaded")
        ELSE IF handle[TerminalModel(op)] = NoHandle
             THEN Exc("ModelNotLoadedException", "terminal_not_loaded")
        ELSE NoExc

\* The last index of the maximum.
ArgMax_Last(sc) ==
    CHOOSE i \in 1..Len(sc) :
        /\ \A j \in 1..Len(sc) : sc[j] <= sc[i]
        /\ \A j \in (i + 1)..Len(sc) : sc[j] < sc[i]

\* np.argmax(scores): the first index of the maximum.
ArgMax(sc) ==
    CHOOSE i \in 1..Len(sc) :
        /\ \A j \in 1..Len(sc) : sc[j] <= sc[i]
        /\ \A j \in 1..(i - 1) : sc[j] < sc[i]

\* "if dilate_kernel_size is not None:", true for 0.
Truthy_NotNone(d) == d # <<>>

\* "if dilate_kernel_size:" is false for None and for 0.
Truthy(d) == d # <<>> /\ d[1] # 0

\* A mask: the image the predictor was set to when it was computed (the
\* masks have that image's height and width), the index of the candidate
\* and the dilation applied (<<>> for none).
Mask(seen, idx, dil) ==
    [seen |-> seen, hw |-> <<ImageOf(seen).h, ImageOf(seen).w>>,
     idx |-> idx, dil |-> dil]

NoMask == [seen |-> "none", hw |-> <<>>, idx |-> 0, dil |-> <<>>]

\* masks[np.argmax(scores)], then dilate_mask if a kernel size is given.
SelectMask(seen, scores, dilate) ==
    Mask(seen, ArgMax(scores), IF Truthy(dilate) THEN dilate ELSE <<>>)

NoPred == [st |-> "none", seen |-> "none", scores |-> <<>>]

NoInput == [op |-> "none"]

\* The arguments of the terminal call handed to run_in_executor: the model
\* object among them (None when there is none), the text prompt, the step
\* count.  _inpaint_with_lama_sync gets lama_model; fill_img_with_sd gets
\* (image, mask, text_prompt, device) and replace_img_with_sd gets (image,
\* mask, text_prompt, num_inference_steps, device): sd_pipeline is a
\* parameter of the two coroutines and is not passed on.
TerminalArgs(op, d, held) ==
    [model |-> IF op = "remove" THEN held["lama"] ELSE NoHandle,
     prompt |-> IF HasPrompt(op) THEN d.prompt ELSE <<>>,
     steps |-> IF op = "replace" THEN d.steps ELSE <<>>]

NoArgs == [model |-> NoHandle, prompt |-> <<>>, steps |-> <<>>]

IdleReq ==
    [pc |-> "idle", in |-> NoInput, image |-> NoImage, data |-> <<>>,
     met |-> {}, held |-> [m \in Models |-> NoHandle], trace |-> <<>>,
     pred |-> NoPred,
     mask |-> NoMask, term |-> "none", args |-> NoArgs,
     exc |-> NoExc, resp |-> NoResp]

\* Failed that hands the caller the mask computed so far.
Failed_ReturnsMask(q, e, calls) ==
    [q EXCEPT !.pc = "done", !.exc = e, !.trace = q.trace \o calls,
              !.resp = IF q.in.path = "direct"
                       THEN Response("raised", "none", e.cls, e.text,
                                     q.mask.hw, <<>>)
                       ELSE [RouteExcept(e) EXCEPT !.mask_hw = q.mask.hw]]

\* The answer when the handler ends with exception e.  A direct call of the
\* service has no route around it: the exception reaches the caller.
Failed(q, e, calls) ==
    [q EXCEPT !.pc = "done", !.exc = e, !.trace = q.trace \o calls,
              !.resp = IF q.in.path = "direct"
                       THEN Response("raised", "none", e.cls, e.text,
                                     <<>>, <<>>)
                       ELSE RouteExcept(e)]

\* A request arrives.  A JSON body is bound to the request model by the
\* framework, which answers 422 itself when the model rejects it.
Received(q, in) ==
    LET v  == RequestModel(in.op, in.fields)
        vi == Req_validate_image_data(in.image_data)
    IN  IF in.path = "json" /\ (v # "ok" \/ vi # "ok")
        THEN [q EXCEPT !.pc = "done", !.in = in,
                !.resp = RequestValidationError(IF v # "ok" THEN v ELSE vi)]
        ELSE [q EXCEPT !.pc = "handler", !.in = in]

\* q waits for a model call it handed to the executor and that has not
\* returned or raised yet.
InModelCall(q) ==
    \/ q.pc = "predict" /\ q.pred.st = "queued"
    \/ q.pc = "terminal" /\ q.term = "queued"

\* The pending model call of q occupies the serving loop, as a call made
\* without run_in_executor would.
HoldsLoop_CallInline(q) == InModelCall(q)

\* predict and the terminal calls are awaited from
\* loop.run_in_executor(None, ...): they run on the default thread pool and
\* the coroutine that awaits them gives the loop back.
HoldsLoop(q) == FALSE

\* LoopFree under which a request is accepted at any time and its segments
\* then wait until every other accepted request is answered.
LoopFree_WaitsForOthers(r) ==
    req[r].pc # "idle" =>
        \A o \in Reqs \ {r} : req[o].pc \in {"idle", "done"}

\* The serving loop can run a segment of request r.
LoopFree(r) == \A o \in Reqs \ {r} : ~HoldsLoop(req[o])

\* met records the requests that were waiting for a model call when this
\* one was accepted (history, for the properties).
Receive(r, Inputs) ==
    /\ req[r].pc = "idle"
    /\ LoopFree(r)
    /\ \E in \in Inputs :
         req' = [req EXCEPT ![r] =
                   [Received(req[r], in) EXCEPT
                      !.met = {o \in Reqs \ {r} : InModelCall(req[o])}]]
    /\ UNCHANGED <<handle, syncRuns, load, fileOk, samBound, ready, probe,
                   settings>>

\* The route handler runs up to its first suspension: parse, decode,
\* validate, check the handles, sam_predictor.set_image(image), and the
\* hand-off of predict to the executor.
Handler(r) ==
    /\ req[r].pc = "handler"
    /\ LoopFree(r)
    /\ LET q == req[r]
           p == IF q.in.path = "direct"
                THEN Parsed(NoExc, ImageOf(q.in.img), q.in.fields)
                ELSE ParseRequest(q.in)
           e == IF p.exc # NoExc THEN p.exc
                ELSE ServiceChecks(q.in.op, p.image, p.data)
           started == [q EXCEPT !.image = p.image, !.data = p.data,
                                !.held = handle]
       IN  IF e # NoExc
           THEN /\ req' = [req EXCEPT ![r] = Failed(q, e, <<>>)]
                /\ UNCHANGED samBound
           ELSE \/ /\ samBound' = p.image.id
                   /\ req' = [req EXCEPT ![r] =
                        [started EXCEPT !.pc = "predict",
                                        !.trace = <<"set_image">>,
                                        !.pred = [NoPred EXCEPT
                                                    !.st = "queued"]]]
                \/ /\ samBound' = "none"
                   /\ req' = [req EXCEPT ![r] =
                        Failed(started, ModelError, <<"set_image">>)]
    /\ UNCHANGED <<handle, syncRuns, load, fileOk, ready, probe, settings>>

\* _predict_masks_sync on the worker pool: sam_predictor.predict works on
\* whatever image the predictor is set to when it runs.
PredictRun(r, Scores) ==
    /\ req[r].pc = "predict"
    /\ req[r].pred.st = "queued"
    /\ \/ /\ samBound # "none"
          /\ \E sc \in Scores :
               req' = [req EXCEPT ![r].trace = @ \o <<"predict">>,
                                  ![r].pred = [st |-> "ok",
                                               seen |-> samBound,
                                               scores |-> sc]]
       \/ req' = [req EXCEPT ![r].trace = @ \o <<"predict">>,
                             ![r].pred = [NoPred EXCEPT !.st = "raised"]]
    /\ UNCHANGED <<handle, syncRuns, load, fileOk, samBound, ready, probe,
                   settings>>

\* PredictResume that does not wait for predict: the terminal call is
\* handed off whatever the state of the segmentation.
PredictResume_NoWait(r) ==
    /\ req[r].pc = "predict"
    /\ LoopFree(r)
    /\ LET q == req[r] IN
       req' = [req EXCEPT ![r] =
                 [q EXCEPT !.pc = "terminal", !.term = "queued",
                           !.args = TerminalArgs(q.in.op, q.data, q.held)]]
    /\ UNCHANGED <<handle, syncRuns, load, fileOk, samBound, ready, probe,
                   settings>>

\* The operation resumes with the masks: best mask, dilation, hand-off of
\* the terminal call to the executor.
PredictResume(r) ==
    /\ req[r].pc = "predict"
    /\ LoopFree(r)
    /\ LET q == req[r] IN
       \/ /\ q.pred.st = "ok"
          /\ req' = [req EXCEPT ![r] =
               [q EXCEPT !.pc = "terminal", !.term = "queued",
                         !.args = TerminalArgs(q.in.op, q.data, q.held),
                         !.mask = SelectMask(q.pred.seen, q.pred.scores,
                                             q.data.dilate)]]
       \/ /\ q.pred.st = "raised"
          /\ req' = [req EXCEPT ![r] = Failed(q, ModelError, <<>>)]
    /\ UNCHANGED <<handle, syncRuns, load, fileOk, samBound, ready, probe,
                   settings>>

\* The terminal model call on the worker pool returns or raises.
TerminalRun(r) ==
    /\ req[r].pc = "terminal"
    /\ req[r].term = "queued"
    /\ \E out \in {"ok", "raised"} :
         req' = [req EXCEPT ![r].trace = @ \o <<TerminalCall(req[r].in.op)>>,
                            ![r].term = out]
    /\ UNCHANGED <<handle, syncRuns, load, fileOk, samBound, ready, probe,
                   settings>>

\* The operation returns (result, mask) and the route encodes both, or the
\* exception of the terminal call propagates.
TerminalResume(r) ==
    /\ req[r].pc = "terminal"
    /\ LoopFree(r)
    /\ LET q == req[r]
           hw == <<q.image.h, q.image.w>>
       IN
       \/ /\ q.term = "ok"
          /\ req' = [req EXCEPT ![r] =
               [q EXCEPT !.pc = "done",
                         !.resp = IF q.in.path = "direct"
                                  THEN Response("returned", "none", "none",
                                                "none", q.mask.hw, hw)
                                  ELSE RouteReturn(q.mask.hw, hw)]]
       \/ /\ q.term = "raised"
          /\ req' = [req EXCEPT ![r] = Failed(q, ModelError, <<>>)]
    /\ UNCHANGED <<handle, syncRuns, load, fileOk, samBound, ready, probe,
                   settings>>

\* A call: the operation, how it arrives ("direct", "form", "json", or
\* "codec" for a call of the codec alone), and its arguments.
Input(op, path, reqText, upload, image_data, img, fields) ==
    [op |-> op, path |-> path, reqText |-> reqText, upload |-> upload,
     image_data |-> image_data, img |-> img, fields |-> fields]

\* Fields every request model accepts.  <<>> is None (null in JSON);
\* omitted holds the optional keys the request leaves out.
ValidFields ==
    [coords |-> <<<<0, 0>>>>, labels |-> <<1>>, dilate |-> <<>>,
     prompt |-> <<"a">>, steps |-> <<50>>, omitted |-> {}]

\* What encode_image_to_base64 returns: a data URI, "data:image/<format in
\* lower case>;base64," followed by the base64 of the file that
\* pil_image.save(buffer, format=format) wrote.  The file has n bytes and
\* holds the buffer's pixels; Image.open names its format by the identifier
\* it was saved with.
Encoded(buf, format, n) ==
    [exc |-> NoExc, image |-> buf,
     payload |-> [NoPayload EXCEPT !.kind = "data", !.size = n,
                                   !.fmt = format,
                                   !.ctype = IF format = "PNG"
                                             THEN "image/png"
                                             ELSE "image/webp"]]

\* encode_image_to_base64 that saves as WebP whatever format it is given.
encode_image_to_base64_AsWebP(buf, format, n) == Encoded(buf, "WEBP", n)

encode_image_to_base64(buf, format, n) == Encoded(buf, format, n)

\* A buffer is encoded as the routes encode a result or a mask (format
\* "PNG", the default), and the string is handed to decode_base64_image.
RoundTrip(r, Buffers, Sizes) ==
    /\ req[r].pc = "idle"
    /\ \E buf \in Buffers, n \in Sizes :
         LET e == encode_image_to_base64(buf, "PNG", n)
             d == decode_base64_image(e.payload, e.image)
         IN  req' = [req EXCEPT ![r] =
                       [@ EXCEPT !.pc = "done",
                                 !.in = Input("encode_decode", "codec",
                                              "none", NoPayload, e.payload,
                                              buf.id, ValidFields),
                                 !.exc = d.exc, !.image = d.image,
                                 !.resp = IF d.exc = NoExc
                                          THEN Response("returned", "none",
                                                        "none", "none",
                                                        <<>>, <<>>)
                                          ELSE Response("raised", "none",
                                                        d.exc.cls, d.exc.text,
                                                        <<>>, <<>>)]]
    /\ UNCHANGED <<handle, syncRuns, load, fileOk, samBound, ready, probe,
                   settings>>

\* decode_base64_image or load_image_from_file is called on its own, as a
\* unit test of the codec calls it: it returns the array or raises.
DecodeCall(r, Inputs) ==
    /\ req[r].pc = "idle"
    /\ \E in \in Inputs :
         LET d == IF in.op = "decode_base64_image"
                  THEN decode_base64_image(in.image_data, ImageOf(in.img))
                  ELSE load_image_from_file(in.upload, ImageOf(in.img))
         IN  req' = [req EXCEPT ![r] =
                       [@ EXCEPT !.pc = "done", !.in = in, !.exc = d.exc,
                                 !.image = d.image,
                                 !.resp = IF d.exc = NoExc
                                          THEN Response("returned", "none",
                                                        "none", "none",
                                                        <<>>, <<>>)
                                          ELSE Response("raised", "none",
                                                        d.exc.cls, d.exc.text,
                                                        <<>>, <<>>)]]
    /\ UNCHANGED <<handle, syncRuns, load, fileOk, samBound, ready, probe,
                   settings>>

(***************************************************************************)
(* Inputs                                                                  *)
(***************************************************************************)
MaxCoord == 3
MaxLabel == 2
MaxPromptLen == 2

CoordVals == -1..MaxCoord
LabelVals == 0..MaxLabel
Chars == {" ", "a", "<"}

SeqsUpTo(S, n) == UNION {[1..k -> S] : k \in 0..n}

\* A point is a pair of coordinates, or a list that is no pair.
Points == {<<x, y>> : x \in CoordVals, y \in CoordVals} \cup {<<0>>, <<0, 0, 0>>}
SecondPoints == {<<0, 0>>, <<MaxCoord, 0>>, <<0, MaxCoord>>, <<0>>}

PointLists ==
    {<<>>} \cup {<<p>> : p \in Points}
           \cup {<<p, q>> : p \in Points, q \in SecondPoints}

LabelLists == SeqsUpTo(LabelVals, 2)
\* Prompts at and past max_length, and one whose stripped text holds only
\* removed characters around a blank.
LongPrompt(n) == [i \in 1..n |-> "a"]
Prompts ==
    SeqsUpTo(Chars, MaxPromptLen)
    \cup {LongPrompt(1000), LongPrompt(1001), <<"<", " ", "<">>}

PngData ==
    [kind |-> "data", blank |-> FALSE, chars_ok |-> TRUE, b64_ok |-> TRUE,
     size |-> 100, fmt |-> "PNG", ctype |-> "image/png"]

\* What can be wrong with an image payload, one thing at a time.
Payloads ==
    {NoPayload, PngData,
     [PngData EXCEPT !.blank = TRUE, !.chars_ok = FALSE, !.b64_ok = FALSE],
     [PngData EXCEPT !.chars_ok = FALSE, !.b64_ok = FALSE],
     [PngData EXCEPT !.b64_ok = FALSE],
     [PngData EXCEPT !.fmt = "junk"],
     [PngData EXCEPT !.fmt = "GIF", !.ctype = "image/gif"],
     [PngData EXCEPT !.fmt = "JPEG", !.ctype = "image/jpeg"],
     [PngData EXCEPT !.fmt = "WEBP", !.ctype = "image/webp"],
     [PngData EXCEPT !.size = max_file_size],
     [PngData EXCEPT !.size = max_file_size + 1],
     [PngData EXCEPT !.ctype = "text/plain"]}

\* Direct calls of the service, as a test with a fake registry makes them.
DirectInputs ==
    {Input(op, "direct", "none", NoPayload, NoPayload, "A",
           [ValidFields EXCEPT !.coords = c, !.labels = l]) :
        op \in Ops, c \in PointLists, l \in LabelLists}
    \cup
    {Input(op, "direct", "none", NoPayload, NoPayload, i,
           [ValidFields EXCEPT !.prompt = t, !.dilate = d]) :
        op \in Ops, i \in {"A", "B"}, t \in Prompts, d \in {<<>>, <<0>>, <<5>>}}

\* The fields of a request, valid or with one group of them changed.
FieldVariants ==
    {[ValidFields EXCEPT !.coords = c, !.labels = l] :
        c \in {<<>>, <<<<0, 0>>>>, <<<<-1, 0>>>>, <<<<0>>>>, <<<<MaxCoord, 0>>>>,
               <<<<0, 0>>, <<1, 1>>>>},
        l \in {<<>>, <<1>>, <<MaxLabel>>, <<0, 1>>}}
    \cup {[ValidFields EXCEPT !.prompt = t] : t \in Prompts}
    \cup {[ValidFields EXCEPT !.dilate = <<d>>] : d \in {-1, 0, 5, 50, 51}}
    \cup {[ValidFields EXCEPT !.steps = n] :
            n \in {<<>>, <<9>>, <<10>>, <<150>>, <<151>>}}
    \cup {[ValidFields EXCEPT !.steps = <<>>, !.omitted = o] :
            o \in {{"num_inference_steps"},
                   {"dilate_kernel_size", "num_inference_steps"}}}

\* Requests over HTTP: multipart form with an upload, or a JSON body.
HttpInputs ==
    {Input(op, "form", t, u, NoPayload, i, f) :
        op \in Ops, t \in {"ok"}, u \in Payloads, i \in {"A", "B"},
        f \in FieldVariants}
    \cup
    {Input(op, "form", t, u, NoPayload, "A", ValidFields) :
        op \in Ops, t \in {"none", "unparseable", "not_object"},
        u \in {NoPayload, PngData}}
    \cup
    {Input(op, "json", "none", NoPayload, d, i, f) :
        op \in Ops, d \in Payloads, i \in {"A", "B"}, f \in FieldVariants}

\* Requests that carry an upload and an image_data string together: in the
\* "request" form field, where the request model drops the extra key, or in a
\* bound body next to the upload.
BothInputs ==
    {Input(op, path, IF path = "form" THEN "ok" ELSE "none", PngData, PngData,
           "A", ValidFields) :
        op \in Ops, path \in {"form", "json"}}

SeqInputs == DirectInputs \cup HttpInputs \cup BothInputs

\* Payloads for the codec: sizes around the limit, the formats as PIL names
\* them (image.format is "WEBP" for a WebP file), bytes that are no image,
\* and strings base64.b64decode rejects.
CodecPayloads ==
    {[PngData EXCEPT !.size = n, !.fmt = f, !.chars_ok = b, !.b64_ok = b] :
        n \in {100, max_file_size - 1, max_file_size, max_file_size + 1},
        f \in {"JPEG", "PNG", "WEBP", "GIF", "junk"},
        b \in BOOLEAN}

CodecInputs ==
    {Input("decode_base64_image", "codec", "none", NoPayload, p, i,
           ValidFields) : p \in CodecPayloads, i \in {"A", "B"}}
    \cup
    {Input("load_image_from_file", "codec", "none", p, NoPayload, i,
           ValidFields) :
        p \in {c \in CodecPayloads : c.b64_ok}, i \in {"A", "B"}}

\* Decodable payloads of images of all sizes.
ResizeInputs ==
    {Input("decode_base64_image", "codec", "none", NoPayload,
           [PngData EXCEPT !.fmt = f, !.size = n], im.id, ValidFields) :
        f \in {"JPEG", "PNG"}, n \in {100, max_file_size}, im \in Images}
    \cup
    {Input("load_image_from_file", "codec", "none",
           [PngData EXCEPT !.fmt = f, !.size = n], NoPayload, im.id,
           ValidFields) :
        f \in {"JPEG", "PNG"}, n \in {100, max_file_size}, im \in Images}

\* Buffers with both sides within max_image_size: results (three channels),
\* masks (two-dimensional) and a four-channel buffer; and encoded sizes up
\* to max_file_size.
Buffers == {im \in Images : Max2(im.w, im.h) <= max_image_size}
EncodedSizes == {100, max_file_size - 1, max_file_size}

\* Requests that run side by side: uploads of two different images, with a
\* point inside the image or outside it.
ConcInputs ==
    {Input(op, "form", "ok", PngData, NoPayload, i,
           [ValidFields EXCEPT !.dilate = d, !.coords = <<<<x, 0>>>>]) :
        op \in Ops, i \in {"A", "B"}, d \in {<<>>, <<5>>},
        x \in {0, MaxCoord}}

\* Requests after startup: valid ones on both paths, and form uploads with
\* a point outside the image.
StartupInputs ==
    {Input(op, "form", "ok", PngData, NoPayload, "A",
           [ValidFields EXCEPT !.coords = <<<<x, 0>>>>]) :
        op \in Ops, x \in {0, MaxCoord}}
    \cup
    {Input(op, "json", "none", NoPayload, PngData, "A", ValidFields) :
        op \in Ops}

\* Requests for the runs under fairness: an upload with a point inside the
\* image for each operation, and one with a point outside it.
LiveInputs ==
    {Input(op, "form", "ok", PngData, NoPayload, "A", ValidFields) :
        op \in Ops}
    \cup
    {Input("remove", "form", "ok", PngData, NoPayload, "A",
           [ValidFields EXCEPT !.coords = <<<<MaxCoord, 0>>>>])}

LiveScores == {<<1, 2, 2>>}

\* The scores predict returns for its three candidate masks.
ConcScores == {<<1, 2, 2>>, <<2, 1, 2>>}
SeqScores == {<<1, 2, 2>>, <<2, 1, 2>>, <<3, 3, 3>>}

(***************************************************************************)
(* Specifications                                                          *)
(***************************************************************************)
\* The process starts: nothing is loaded.
InitRegistry ==
    /\ handle = [m \in Models |-> NoHandle]
    /\ syncRuns = [m \in Models |-> 0]
    /\ load = [c \in Callers |-> IdleLoad]
    /\ fileOk \in [{"sam", "lama"} -> BOOLEAN]
    /\ samBound = "none"
    /\ req = [r \in Reqs |-> IdleReq]
    /\ ready = NoReady
    /\ probe = NoProbe
    /\ settings = DefaultSettings

\* Startup is over (development environment): the load of the lifespan has
\* returned or raised and no load is in flight; any of the handles may be
\* missing, because its files are missing or its loader raised.
InitServing ==
    /\ handle \in [Models -> {NoHandle, <<1>>}]
    /\ fileOk = [m \in {"sam", "lama"} |-> handle[m] # NoHandle]
    /\ syncRuns = [m \in Models |-> IF FilesExist(m) THEN 1 ELSE 0]
    /\ load = [c \in Callers |->
                IF c = LifespanCaller
                THEN [kind |-> "all",
                      st |-> IF is_ready THEN "returned" ELSE "raised",
                      sub |-> [m \in Models |->
                                 IF handle[m] # NoHandle THEN "done"
                                 ELSE "failed"],
                      obj |-> handle,
                      exc |-> IF ~FilesExist("sam") THEN FileNotFound("sam")
                              ELSE IF ~FilesExist("lama")
                              THEN FileNotFound("lama")
                              ELSE IF handle["sd"] = NoHandle THEN ModelError
                              ELSE NoExc]
                ELSE IdleLoad]
    /\ samBound = "none"
    /\ req = [r \in Reqs |-> IdleReq]
    /\ ready = NoReady
    /\ probe = NoProbe
    /\ settings = DefaultSettings

\* The process starts under any setting of the environment and of the mock
\* toggle.
InitStartup ==
    /\ handle = [m \in Models |-> NoHandle]
    /\ syncRuns = [m \in Models |-> 0]
    /\ load = [c \in Callers |-> IdleLoad]
    /\ fileOk \in [{"sam", "lama"} -> BOOLEAN]
    /\ samBound = "none"
    /\ req = [r \in Reqs |-> IdleReq]
    /\ ready = NoReady
    /\ probe = NoProbe
    /\ settings \in [environment : {"production", "development"},
                      use_mock_service : BOOLEAN]

\* The registry: the startup load and one explicit load call, with GET /ready.
NextRegistry ==
    \/ LoadCall(LifespanCaller, "all")
    \/ \E c \in ExplicitCallers, k \in Models \cup {"all"} : LoadCall(c, k)
    \/ \E c \in Callers, m \in Models : SyncLoad(c, m)
    \/ \E c \in Callers, m \in Models : LoadResume(c, m)
    \/ \E c \in Callers : LoadReturn(c)
    \/ readiness_check

SpecRegistry == InitRegistry /\ [][NextRegistry]_vars

\* The startup load with the reads of the registry: the get methods and
\* GET /health.
NextProbe ==
    \/ LoadCall(LifespanCaller, "all")
    \/ \E m \in Models : SyncLoad(LifespanCaller, m)
    \/ \E m \in Models : LoadResume(LifespanCaller, m)
    \/ LoadReturn(LifespanCaller)
    \/ \E m \in Models : Get(m)
    \/ health_check

SpecProbe == InitRegistry /\ [][NextProbe]_vars

\* Two requests side by side.
Next ==
    \/ \E r \in Reqs : Receive(r, ConcInputs)
    \/ \E r \in Reqs : Handler(r)
    \/ \E r \in Reqs : PredictRun(r, ConcScores)
    \/ \E r \in Reqs : PredictResume(r)
    \/ \E r \in Reqs : TerminalRun(r)
    \/ \E r \in Reqs : TerminalResume(r)

Spec == InitServing /\ [][Next]_vars

\* Two requests side by side, where the serving loop runs every segment
\* that is ready and every model call handed to the worker pool returns or
\* raises.
NextLive ==
    \/ \E r \in Reqs : Receive(r, LiveInputs)
    \/ \E r \in Reqs : Handler(r)
    \/ \E r \in Reqs : PredictRun(r, LiveScores)
    \/ \E r \in Reqs : PredictResume(r)
    \/ \E r \in Reqs : TerminalRun(r)
    \/ \E r \in Reqs : TerminalResume(r)

Fairness ==
    \A r \in Reqs :
        /\ WF_vars(Handler(r))
        /\ WF_vars(PredictRun(r, LiveScores))
        /\ WF_vars(PredictResume(r))
        /\ WF_vars(TerminalRun(r))
        /\ WF_vars(TerminalResume(r))

FairSpec == InitServing /\ [][NextLive]_vars /\ Fairness

\* One request at a time, over all inputs.
NextSeq ==
    \/ Receive("r1", SeqInputs)
    \/ Handler("r1")
    \/ PredictRun("r1", SeqScores)
    \/ PredictResume("r1")
    \/ TerminalRun("r1")
    \/ TerminalResume("r1")

SpecSeq == InitServing /\ [][NextSeq]_vars

\* Startup, then one request and GET /ready once the server accepts
\* requests.  The routes call inpaint_service under every setting.
NextStartup ==
    \/ lifespan
    \/ \E m \in Models : SyncLoad(LifespanCaller, m)
    \/ \E m \in Models : LoadResume(LifespanCaller, m)
    \/ LoadReturn(LifespanCaller)
    \/ Serving /\ Receive("r1", StartupInputs)
    \/ Handler("r1")
    \/ PredictRun("r1", ConcScores)
    \/ PredictResume("r1")
    \/ TerminalRun("r1")
    \/ TerminalResume("r1")
    \/ Serving /\ readiness_check

SpecStartup == InitStartup /\ [][NextStartup]_vars

\* The codec on its own.
NextCodec == DecodeCall("r1", CodecInputs)

SpecCodec == InitServing /\ [][NextCodec]_vars

\* Encoding followed by decoding.
NextRoundTrip == RoundTrip("r1", Buffers, EncodedSizes)

SpecRoundTrip == InitServing /\ [][NextRoundTrip]_vars

\* The codec on decodable payloads of small and large images.
NextResize == DecodeCall("r1", ResizeInputs)

SpecResize == InitServing /\ [][NextResize]_vars

(***************************************************************************)
(* Properties                                                              *)
(***************************************************************************)
Answered(r) == req[r].pc = "done"
OverHttp(r) == req[r].in.path \in {"form", "json"}

\* C1: the predict call made for a request computes its masks against the
\* image that request bound, never against the image another request bound.
C1_PredictOnOwnImage ==
    \A r \in Reqs :
        req[r].pred.st = "ok" => req[r].pred.seen = req[r].image.id

\* C2: the mask a pipeline run returns has the height and width of that
\* request's own input image.
C2_MaskHasImageShape ==
    \A r \in Reqs :
        (Answered(r) /\ req[r].resp.status \in {"200", "returned"})
            => req[r].resp.mask_hw = <<req[r].image.h, req[r].image.w>>

\* The structural invariants of a point prompt set against an image, as the
\* data model states them (emptiness aside).
PointsWellFormed(f, im) ==
    /\ Len(f.coords) = Len(f.labels)
    /\ \A i \in 1..Len(f.coords) :
         /\ Len(f.coords[i]) = 2
         /\ f.coords[i][1] >= 0 /\ f.coords[i][1] <= im.w
         /\ f.coords[i][2] >= 0 /\ f.coords[i][2] <= im.h
    /\ \A i \in 1..Len(f.labels) : f.labels[i] \in {0, 1}

PointReasons == {"coord_arity", "coord_bounds", "label_count", "label_value"}

\* The operation of the service is entered: called directly, or by a route
\* that parsed the request and decoded the image.
ServiceEntered(q) ==
    /\ q.pc # "idle"
    /\ \/ q.in.path = "direct"
       \/ q.in.path = "form" /\ ParseRequest(q.in).exc = NoExc

\* C3: well-formed point prompts pass the validation of the operation; any
\* violation fails the operation with the invalid-input error before any
\* model call (set_image, predict, terminal call).
C3_PointValidation ==
    \A r \in Reqs :
        LET q == req[r] IN
        ServiceEntered(q) =>
            IF PointsWellFormed(q.in.fields, ImageOf(q.in.img))
            THEN Answered(r) => q.exc.text \notin PointReasons
            ELSE /\ q.trace = <<>>
                 /\ q.pc \in {"handler", "done"}
                 /\ Answered(r) =>
                      /\ q.exc.cls = "InvalidImageException"
                      /\ q.exc.text \in PointReasons
                      /\ q.resp.status \in {"raised", "400"}

C3_Witness ==
    \E r \in Reqs :
        /\ Answered(r)
        /\ req[r].in.path = "direct"
        /\ req[r].in.fields.coords = <<<<0, 0>>, <<0, MaxCoord>>>>
        /\ req[r].exc.text = "coord_bounds"
        /\ req[r].trace = <<>>

\* C4: GET /ready answers 200 exactly when all three handles are set and 503
\* otherwise, and after a 200 every later answer is 200.
C4_ReadyGate ==
    [][/\ ready' # ready =>
            /\ ready'.last \in {"200", "503"}
            /\ ready'.last = "200" <=> \A m \in Models : handle'[m] # NoHandle
       /\ ready.last = "200" => ready'.last = "200"]_vars

C4_Witness ==
    /\ ready.last = "200"
    /\ ready.seq = FALSE
    /\ load[LifespanCaller].st = "raised"

\* C5: no two loads of the same model are in flight together.
InFlight(c, m) == load[c].sub[m] \in {"awaiting", "built", "sync_raised"}

C5_OneLoadPerModel ==
    \A m \in Models : Cardinality({c \in Callers : InFlight(c, m)}) <= 1

\* What the error taxonomy calls invalid input, on a request over HTTP.
BadPayload(p) ==
    /\ p.kind = "data"
    /\ \/ p.blank \/ ~p.chars_ok \/ ~p.b64_ok
       \/ p.fmt \notin {"JPEG", "PNG", "WEBP"}
       \/ p.size > max_file_size

InvalidRequest(in) ==
    \/ in.path = "form" /\ in.reqText \in {"unparseable", "not_object"}
    \/ ~PointsWellFormed(in.fields, ImageOf(in.img))
    \/ HasPrompt(in.op) /\ Strip(in.fields.prompt) = <<>>
    \/ BadPayload(IF in.path = "form" THEN in.upload ELSE in.image_data)

\* C6: no request with invalid input is answered with HTTP 500.
C6_InvalidNever500 ==
    \A r \in Reqs :
        (Answered(r) /\ OverHttp(r) /\ InvalidRequest(req[r].in))
            => req[r].resp.status # "500"

\* The name the error taxonomy gives to an exception class.
TaxonomyName(cls) ==
    IF cls = "ModelNotLoadedException" THEN "ModelNotLoaded"
    ELSE IF cls = "ProcessingTimeoutException" THEN "ProcessingTimeout"
    ELSE "InvalidInput"

\* C7: the error_code of the answer to a domain error is the taxonomy name
\* of that error.
C7_ErrorCodeIsTaxonomyName ==
    \A r \in Reqs :
        (Answered(r) /\ OverHttp(r) /\ req[r].exc.cls \in DomainExceptions)
            => req[r].resp.error_code = TaxonomyName(req[r].exc.cls)

\* C8: an exception that ends a route handler is answered with 400 when it
\* is a domain error, and otherwise with 500 and the fixed message, which
\* holds no text of the exception.
C8_ErrorStatus ==
    \A r \in Reqs :
        LET q == req[r] IN
        (Answered(r) /\ OverHttp(r) /\ q.exc # NoExc) =>
            IF q.exc.cls \in DomainExceptions
            THEN q.resp.status = "400"
            ELSE /\ q.resp.status = "500"
                 /\ q.resp.message = "Internal server error"
                 /\ q.resp.message # q.exc.text

C8_Witness ==
    \E r \in Reqs :
        /\ Answered(r)
        /\ req[r].in.path = "form"
        /\ req[r].exc = ModelError
        /\ req[r].trace = <<"set_image", "predict", "fill_img_with_sd">>
        /\ req[r].resp.status = "500"

\* A JSON-body request as the API tests send it: a data-URI PNG, in-bounds
\* points, matching labels, a prompt where one is required.
ValidJsonRequest(in) ==
    /\ in.path = "json"
    /\ in.image_data = PngData
    /\ RequestModel(in.op, in.fields) = "ok"
    /\ in.fields.coords # <<>>
    /\ PointsWellFormed(in.fields, ImageOf(in.img))

\* C9: with all models loaded, a valid JSON-body request is answered with
\* 200, success=true, and a result and a mask of the input image's size.
C9_ValidJsonSucceeds ==
    \A r \in Reqs :
        LET q == req[r] IN
        (/\ Answered(r) /\ ValidJsonRequest(q.in) /\ is_ready
         /\ q.exc # ModelError) =>
            /\ q.resp.status = "200"
            /\ q.resp.success = "true"
            /\ q.resp.mask_hw = <<ImageOf(q.in.img).h, ImageOf(q.in.img).w>>
            /\ q.resp.result_hw = q.resp.mask_hw

\* C10: POST /fill with an empty text_prompt is answered with 400 and
\* error_code "InvalidInput", and no model call is made for it.
C10_EmptyPromptOnFill ==
    \A r \in Reqs :
        LET q == req[r] IN
        (/\ Answered(r) /\ OverHttp(r) /\ q.in.op = "fill"
         /\ q.in.fields.prompt = <<>>
         /\ ~InvalidRequest([q.in EXCEPT !.fields.prompt = <<"a">>])) =>
            /\ q.resp.status = "400"
            /\ q.resp.error_code = "InvalidInput"
            /\ q.trace = <<>>

\* A request that is well formed apart from its image source.
FieldsAccepted(in) ==
    /\ in.path = "form" => in.reqText = "ok"
    /\ RequestModel(in.op, in.fields) = "ok"

\* C11: a request with neither an uploaded image nor image_data is answered
\* with 400 and error_code "InvalidInput", on the form path and on the
\* JSON-body path, and no model call is made for it.
C11_NoImageIs400 ==
    \A r \in Reqs :
        LET q == req[r] IN
        (/\ Answered(r) /\ OverHttp(r) /\ FieldsAccepted(q.in)
         /\ q.in.upload.kind = "none" /\ q.in.image_data.kind = "none") =>
            /\ q.resp.status = "400"
            /\ q.resp.error_code = "InvalidInput"
            /\ q.trace = <<>>

\* C12: a request that carries both an uploaded image and an image_data
\* string is rejected as invalid input; neither source is used.
C12_ExactlyOneSource ==
    \A r \in Reqs :
        LET q == req[r] IN
        (/\ Answered(r) /\ OverHttp(r) /\ FieldsAccepted(q.in)
         /\ q.in.upload.kind = "data" /\ q.in.image_data.kind = "data") =>
            /\ q.resp.status = "400"
            /\ q.exc.cls \in DomainExceptions
            /\ q.image = NoImage
            /\ q.trace = <<>>

\* The arguments the operation is called with: the fields of a direct call,
\* the fields of the request model on a route.
ServiceData(in) ==
    IF in.path = "direct" THEN in.fields ELSE ReqData(in.op, in.fields)

\* The arguments of an operation pass its validation stage.
PassesValidation(in) ==
    /\ PointsWellFormed(ServiceData(in), ImageOf(in.img))
    /\ HasPrompt(in.op) => Strip(ServiceData(in).prompt) # <<>>

\* C13: when a handle the operation requires is absent (Segmenter or
\* Inpainter for remove, Segmenter or DiffusionFiller for fill and replace),
\* the operation fails with ModelNotLoaded and has made no model call; no
\* image is bound to the Segmenter, also when only the terminal model is
\* missing.
C13_ModelNotLoadedFirst ==
    \A r \in Reqs :
        LET q == req[r]
            noSam == handle["sam"] = NoHandle
            noTerminal == handle[TerminalModel(q.in.op)] = NoHandle
        IN  (/\ ServiceEntered(q) /\ PassesValidation(q.in)
             /\ (noSam \/ noTerminal)) =>
                /\ q.trace = <<>>
                /\ samBound = "none"
                /\ q.pc \in {"handler", "done"}
                /\ Answered(r) =>
                     /\ q.exc.cls = "ModelNotLoadedException"
                     /\ q.exc.text = IF noSam THEN "sam_not_loaded"
                                     ELSE "terminal_not_loaded"
                     /\ q.resp.status \in {"raised", "400"}

C13_Witness ==
    \E r \in Reqs :
        /\ Answered(r)
        /\ req[r].in.path = "direct"
        /\ req[r].in.op = "remove"
        /\ handle["sam"] # NoHandle
        /\ handle["lama"] = NoHandle
        /\ req[r].exc = Exc("ModelNotLoadedException", "terminal_not_loaded")
        /\ req[r].trace = <<>>
        /\ samBound = "none"

\* C14: a load called when a model's handle is set performs no load for
\* that model and returns the handle that is set; a load_all_models called
\* when all handles are set returns and leaves the registry as it was.
C14_LoadIsIdempotent ==
    [][\A c \in Callers :
         /\ \A m \in Models :
              (/\ load[c].st = "idle" /\ load'[c].st # "idle"
               /\ m \in Targets(load'[c].kind) /\ handle[m] # NoHandle) =>
                 /\ load'[c].sub[m] = "done"
                 /\ load'[c].obj[m] = handle[m]
                 /\ handle' = handle /\ syncRuns' = syncRuns
         /\ \A m \in Models :
              (load[c].sub[m] = "done" /\ load'[c] # load[c]) =>
                 /\ load'[c].sub[m] = "done"
                 /\ load'[c].obj[m] = load[c].obj[m]
                 /\ handle'[m] = handle[m] /\ syncRuns'[m] = syncRuns[m]
         /\ (/\ load[c].kind = "all" /\ load[c].st = "awaiting"
             /\ \A m \in Models : load[c].sub[m] = "done"
             /\ load'[c] # load[c]) =>
                 /\ load'[c].st = "returned"
                 /\ handle' = handle /\ syncRuns' = syncRuns]_vars

\* Both callers have called load_all_models and both calls have returned,
\* with one construction of each model.
C14_Witness ==
    /\ \A c \in Callers : load[c].kind = "all" /\ load[c].st = "returned"
    /\ \A m \in Models : syncRuns[m] = 1 /\ handle[m] = <<1>>

\* C15: a handle that is set is never unset: not by a load that succeeds,
\* not by a load that fails, not by a failed load_all_models, not by a
\* readiness query; the set of loaded models only grows.
C15_HandlesNeverUnset ==
    [][/\ \A m \in Models : handle[m] # NoHandle => handle'[m] # NoHandle
       /\ \A c \in Callers :
            (load[c].st = "awaiting" /\ load'[c].st = "raised") =>
                handle' = handle]_vars

\* load_all_models has failed on the diffusion pipeline's loader while the
\* other two handles are set.
C15_Witness ==
    /\ load[LifespanCaller].st = "raised"
    /\ load[LifespanCaller].exc = ModelError
    /\ load[LifespanCaller].sub["sd"] = "failed"
    /\ handle["sam"] # NoHandle
    /\ handle["lama"] # NoHandle
    /\ handle["sd"] = NoHandle
    /\ ready.last = "503"

\* The exception tells which model failed to load: it is the load error of
\* the taxonomy for that model, or its text names the model.
ErrorNames(e, m) ==
    \/ e = Exc("ModelLoadError", m)
    \/ m # "sd" /\ e = FileNotFound(m)

\* C16: a load_all_models that fails raises a ModelLoadError that names the
\* model that failed and carries the cause, whether a file is missing or the
\* synchronous loader raised.
C16_ModelLoadError ==
    \A c \in Callers :
        (load[c].kind = "all" /\ load[c].st = "raised") =>
            \E m \in Models :
                /\ load[c].sub[m] = "failed"
                /\ ErrorNames(load[c].exc, m)

GetNames == {GetName(m) : m \in Models}

\* C17: a get returns the current handle, or None when there is none, in
\* one step, and leaves the registry as it was: it starts no load and sets
\* or unsets no handle.
C17_GetIsPure ==
    [][(probe' # probe /\ probe'.op \in GetNames) =>
          /\ \E m \in Models :
                probe'.op = GetName(m) /\ probe'.value = handle[m]
          /\ handle' = handle
          /\ load' = load
          /\ syncRuns' = syncRuns]_vars

\* get_lama_model has answered None while the load of that model is in
\* flight.
C17_Witness ==
    /\ probe.op = "get_lama_model"
    /\ probe.value = NoHandle
    /\ load[LifespanCaller].sub["lama"] = "built"
    /\ handle["sam"] # NoHandle

\* C18: GET /health answers 200 in every state of the registry; its flags
\* tell which handles are set when it is called, and its status is
\* "healthy" exactly when all three are set and "partial" otherwise.
C18_HealthReflectsHandles ==
    [][(probe' # probe /\ probe'.op = "health_check") =>
          /\ probe'.code = "200"
          /\ \A m \in Models : probe'.flags[m] <=> handle[m] # NoHandle
          /\ probe'.status \in {"healthy", "partial"}
          /\ probe'.status = "healthy" <=>
                \A m \in Models : handle[m] # NoHandle]_vars

\* /health has answered "partial" with one of the three models loaded.
C18_Witness ==
    /\ probe.op = "health_check"
    /\ probe.code = "200"
    /\ probe.status = "partial"
    /\ probe.flags = [m \in Models |-> m = "sd"]
    /\ handle["sd"] # NoHandle
    /\ load[LifespanCaller].st = "raised"

Selected(r) == req[r].mask # NoMask

\* C19: the mask an operation selects is the candidate at the index of the
\* maximum score, the smallest such index when several candidates share the
\* maximum; the same candidates and scores give the same selected mask.
C19_BestMaskIsFirstMax ==
    /\ \A r \in Reqs :
         Selected(r) =>
            LET sc == req[r].pred.scores
                i  == req[r].mask.idx
            IN  /\ i \in 1..Len(sc)
                /\ \A j \in 1..Len(sc) : sc[j] <= sc[i]
                /\ \A j \in 1..Len(sc) : sc[j] = sc[i] => i <= j
                /\ req[r].mask.seen = req[r].pred.seen
    /\ \A r1, r2 \in Reqs :
         (/\ Selected(r1) /\ Selected(r2)
          /\ req[r1].pred.seen = req[r2].pred.seen
          /\ req[r1].pred.scores = req[r2].pred.scores) =>
            /\ req[r1].mask.idx = req[r2].mask.idx
            /\ req[r1].mask.seen = req[r2].mask.seen

\* Two answered requests of different operations: one selected the second
\* of two tied candidates 2 and 3, the other the first of 1 and 3.
C19_Witness ==
    \E r1, r2 \in Reqs :
        /\ Answered(r1) /\ Answered(r2)
        /\ req[r1].in.op = "remove" /\ req[r2].in.op = "replace"
        /\ req[r1].pred.scores = <<1, 2, 2>> /\ req[r1].mask.idx = 2
        /\ req[r2].pred.scores = <<2, 1, 2>> /\ req[r2].mask.idx = 1
        /\ req[r1].resp.status = "200"

\* C20: decoding, from base64 and from an upload: a string that is no
\* base64 and bytes that are no image fail with the invalid-image error; more
\* bytes than max_file_size fail with FileTooLarge, exactly max_file_size
\* bytes are accepted; a format other than JPEG, PNG and WebP fails with
\* UnsupportedFormat; JPEG, PNG and WebP within the limit decode; the two
\* specific errors are never turned into the invalid-image error.
C20_DecodeClassification ==
    \A r \in Reqs :
        LET q == req[r]
            b64 == q.in.op = "decode_base64_image"
            p == IF b64 THEN q.in.image_data ELSE q.in.upload
        IN  (Answered(r) /\ q.in.path = "codec") =>
                IF b64 /\ ~p.b64_ok
                THEN q.exc.cls = "InvalidImageException"
                ELSE IF p.size > max_file_size
                THEN q.exc.cls = "FileTooLargeException"
                ELSE IF p.fmt = "junk"
                THEN q.exc.cls = "InvalidImageException"
                ELSE IF p.fmt \in {"JPEG", "PNG", "WEBP"}
                THEN q.exc = NoExc /\ q.image = ImageOf(q.in.img)
                ELSE q.exc.cls = "UnsupportedImageFormatException"

\* C21: a decoded image with a side above max_image_size comes out with its
\* larger side equal to max_image_size, the other side scaled by the same
\* ratio, and both sides above 0, whatever its width and height; an image
\* with both sides within max_image_size keeps its dimensions.
C21_ResizeToMax ==
    \A r \in Reqs :
        LET q == req[r]
            im == ImageOf(q.in.img)
            m == Max2(im.w, im.h)
            out == q.image
        IN  (Answered(r) /\ q.in \in ResizeInputs) =>
                /\ q.exc = NoExc
                /\ IF m > max_image_size
                   THEN /\ Max2(out.w, out.h) = max_image_size
                        /\ out.w > 0 /\ out.h > 0
                        /\ out.w * m <= im.w * max_image_size
                        /\ im.w * max_image_size < (out.w + 1) * m
                        /\ out.h * m <= im.h * max_image_size
                        /\ im.h * max_image_size < (out.h + 1) * m
                   ELSE out.w = im.w /\ out.h = im.h

\* C22: a buffer or mask with both sides within max_image_size, whose
\* encoding is within max_file_size, is encoded to a data URI that the
\* decoder accepts, and the decoded image has the buffer's height and
\* width and three channels.
C22_EncodeDecode ==
    \A r \in Reqs :
        LET q == req[r]
            buf == ImageOf(q.in.img)
        IN  (Answered(r) /\ q.in.op = "encode_decode") =>
                /\ q.in.image_data.kind = "data"
                /\ q.in.image_data.ctype = "image/png"
                /\ q.exc = NoExc
                /\ q.image.h = buf.h /\ q.image.w = buf.w
                /\ Channels(q.image) = 3

\* A mask of max_image_size rows came back from the round trip with three
\* channels, its encoding being of exactly max_file_size bytes.
C22_Witness ==
    \E r \in Reqs :
        /\ Answered(r)
        /\ req[r].in.op = "encode_decode"
        /\ req[r].in.img = "MaskEdge"
        /\ req[r].in.image_data.size = max_file_size
        /\ req[r].image = Img("MaskEdge", max_image_size, 1, "RGB")
        /\ req[r].resp.status = "returned"

StepRange == {<<n>> : n \in 10..150}

\* C23: for a /replace request that validation accepts, the step count
\* handed to the terminal call is an integer from 10 to 150, and it is 50
\* when the request holds no num_inference_steps; a request with a value
\* outside 10..150 is rejected before any model call.
C23_StepCount ==
    \A r \in Reqs :
        LET q == req[r]
            f == q.in.fields
            given == "num_inference_steps" \notin f.omitted
        IN  (q.pc # "idle" /\ OverHttp(r) /\ q.in.op = "replace") =>
                /\ q.term # "none" => q.args.steps \in StepRange
                /\ (q.term # "none" /\ ~given) => q.args.steps = <<50>>
                /\ (given /\ f.steps \notin StepRange /\ f.steps # <<>>) =>
                        /\ q.trace = <<>>
                        /\ q.pc \in {"handler", "done"}
                        /\ Answered(r) => q.resp.status \notin {"200"}

C25_EmptyPointsRejected ==
    \A r \in Reqs :
        LET q == req[r] IN
        (/\ ServiceEntered(q)
         /\ q.in.fields.coords = <<>> /\ q.in.fields.labels = <<>>) =>
            /\ q.trace = <<>>
            /\ q.pc \in {"handler", "done"}
            /\ Answered(r) =>
                 /\ q.exc.cls = "InvalidImageException"
                 /\ q.resp.status \in {"raised", "400"}

\* A request is inside the bind+predict section: it has bound its image
\* and its predict has neither returned nor raised to it.
InBindPredict(r) == req[r].pc = "predict"

\* C26: the bind+predict sequence on the segmenter is serialized: at most
\* one request is inside it at any moment.
C26_BindPredictSerialized ==
    \A r1, r2 \in Reqs :
        (InBindPredict(r1) /\ InBindPredict(r2)) => r1 = r2

\* C27: while a request waits for a model call on the worker pool, the
\* serving loop can accept another request and run its handler, which
\* answers it with the invalid-input or the model-not-loaded error before
\* that model call has completed.
C27_LoopKeepsServing ==
    \A r1, r2 \in Reqs :
        (r1 # r2 /\ InModelCall(req[r1])) =>
            /\ req[r2].pc = "idle" => ENABLED Receive(r2, ConcInputs)
            /\ req[r2].pc = "handler" => ENABLED Handler(r2)

C27_Witness ==
    \E r1, r2 \in Reqs :
        /\ r1 # r2
        /\ req[r1].pc = "predict" /\ req[r1].pred.st = "queued"
        /\ r1 \in req[r2].met
        /\ req[r2].pc = "done" /\ req[r2].trace = <<>>
        /\ req[r2].exc.cls = "InvalidImageException"
        /\ req[r2].resp.status = "400"

\* C28: every model call made for a request (set_image, predict, the
\* terminal call) runs on the worker pool: the step that makes it is taken
\* while the request waits for a call it handed to the executor, never by
\* a segment of the request on the serving loop.
C28_ModelCallsOnWorkerPool ==
    [][\A r \in Reqs :
         Len(req'[r].trace) > Len(req[r].trace) => InModelCall(req[r])]_vars

\* C29: the terminal call of fill and of replace is made on the diffusion
\* handle the registry holds, the one whose presence the operation checked.
C29_TerminalUsesRegistryHandle ==
    \A r \in Reqs :
        LET q == req[r] IN
        (q.pc # "idle" /\ HasPrompt(q.in.op) /\ q.term # "none") =>
            /\ q.args.model # NoHandle
            /\ q.args.model = handle["sd"]

IsPrefix(s, t) == Len(s) <= Len(t) /\ \A i \in 1..Len(s) : s[i] = t[i]

PcRank(pc) ==
    CASE pc = "idle" -> 0 [] pc = "handler" -> 1 [] pc = "predict" -> 2
      [] pc = "terminal" -> 3 [] pc = "done" -> 4

\* What the stages of one request have done so far is in the order
\* validate, check handles, bind, predict, select and dilate, terminal
\* call, return: each has happened only if the one before it has completed.
StagesInOrder(q) ==
    /\ IsPrefix(q.trace, <<"set_image", "predict", TerminalCall(q.in.op)>>)
    /\ q.trace # <<>> =>
         /\ PointsWellFormed(q.data, q.image)
         /\ q.held["sam"] # NoHandle
         /\ q.held[TerminalModel(q.in.op)] # NoHandle
    /\ q.pred.st \in {"ok", "raised"} <=> Len(q.trace) >= 2
    /\ q.mask # NoMask => q.pred.st = "ok" /\ q.mask.seen = q.pred.seen
    /\ q.term # "none" => q.mask # NoMask
    /\ q.term \in {"ok", "raised"} <=> Len(q.trace) = 3
    /\ q.resp.status \in {"200", "returned"} => q.term = "ok"
    /\ q.pc = "predict" => Len(q.trace) \in {1, 2}
    /\ q.pc = "terminal" => Len(q.trace) \in {2, 3}

\* C30: within each request the stages occur strictly in the order
\* validate, check handles, bind, predict, select best mask, dilate,
\* terminal call, return, whatever the other requests do in between: no
\* stage starts before the one before it has completed, and no step takes a
\* request back.
C30_StagesInOrder ==
    /\ [](\A r \in Reqs : StagesInOrder(req[r]))
    /\ [][\A r \in Reqs :
            /\ PcRank(req'[r].pc) >= PcRank(req[r].pc)
            /\ IsPrefix(req[r].trace, req'[r].trace)
            /\ Len(req'[r].trace) <= Len(req[r].trace) + 1]_vars

\* A request was answered 200 after all its stages while another one, which
\* was accepted during one of its model calls, ran its own stages.
C30_Witness ==
    \E r1, r2 \in Reqs :
        /\ r1 # r2
        /\ req[r1].pc = "done" /\ req[r1].resp.status = "200"
        /\ Len(req[r1].trace) = 3
        /\ r1 \in req[r2].met
        /\ req[r2].trace = <<"set_image", "predict">>

\* C31: when the terminal call fails after a mask was computed, the caller
\* gets an error and neither the mask nor a result image: a direct caller
\* gets the exception of the model call, a client an error response.
C31_NoPartialResult ==
    \A r \in Reqs :
        LET q == req[r] IN
        (Answered(r) /\ q.term = "raised") =>
            /\ q.mask # NoMask
            /\ q.exc = ModelError
            /\ q.resp.mask_hw = <<>> /\ q.resp.result_hw = <<>>
            /\ q.resp.success # "true"
            /\ IF q.in.path = "direct"
               THEN /\ q.resp.status = "raised"
                    /\ q.resp.error_code = ModelError.cls
                    /\ q.resp.message = ModelError.text
               ELSE q.resp.status = "500"

C31_Witness ==
    \E r \in Reqs :
        /\ Answered(r) /\ req[r].term = "raised"
        /\ req[r].in.path = "form"
        /\ req[r].mask.hw # <<>>
        /\ req[r].trace = <<"set_image", "predict", "fill_img_with_sd">>
        /\ req[r].resp.status = "500"

\* C32: the mask an operation returns is dilated exactly when
\* dilate_kernel_size is given and not 0, by that size; when it is 0 or
\* absent the mask is the selected best mask as predict made it.
C32_DilationWhenNonzero ==
    \A r \in Reqs :
        LET q == req[r]
            d == q.data.dilate
            given == d # <<>> /\ d[1] # 0
        IN  (Answered(r) /\ q.resp.status \in {"200", "returned"}) =>
                /\ q.mask.dil # <<>> <=> given
                /\ given => q.mask.dil = d
                /\ q.mask.seen = q.pred.seen
                /\ \A j \in 1..Len(q.pred.scores) :
                     q.pred.scores[j] <= q.pred.scores[q.mask.idx]

\* An operation given the kernel size 0 returned the undilated mask.
C32_Witness ==
    \E r \in Reqs :
        /\ Answered(r) /\ req[r].resp.status \in {"200", "returned"}
        /\ req[r].data.dilate = <<0>>
        /\ req[r].mask.dil = <<>>
        /\ req[r].mask.idx # 0

\* C35: when one load of load_all_models fails, the call raises that
\* failure at once: the other loads are not waited for and not cancelled,
\* they can still run their loader and they store their handle when they
\* finish, after the call has reported failure.
C35_FailureLeavesSiblingsRunning ==
    /\ [](\A c \in Callers, m \in Models :
            (load[c].kind = "all" /\ load[c].st = "awaiting"
             /\ load[c].sub[m] = "failed") => ENABLED LoadReturn(c))
    /\ [](\A c \in Callers, m \in Models :
            (load[c].kind = "all" /\ load[c].st = "raised") =>
                /\ load[c].sub[m] = "awaiting" => ENABLED SyncLoad(c, m)
                /\ load[c].sub[m] \in {"built", "sync_raised"} =>
                     ENABLED LoadResume(c, m))
    /\ [][\A c \in Callers :
            /\ (load[c].kind = "all" /\ load[c].st = "awaiting"
                /\ load'[c].st = "raised") =>
                    /\ load'[c].sub = load[c].sub
                    /\ load'[c].exc = load[c].exc /\ load[c].exc # NoExc
                    /\ handle' = handle
            /\ \A m \in Models :
                 (load[c].kind = "all" /\ load[c].st = "raised"
                  /\ load[c].sub[m] = "built" /\ load'[c].sub[m] = "done")
                     => handle'[m] = load[c].obj[m] /\ handle'[m] # NoHandle
       ]_vars

\* load_all_models has raised while another of its loads is still in the
\* executor.
C35_Witness ==
    \E c \in Callers, m \in Models :
        /\ load[c].kind = "all" /\ load[c].st = "raised"
        /\ load[c].sub[m] = "awaiting"
        /\ handle[m] = NoHandle

\* C36: a load of one model that fails (missing file, or the loader
\* raises) stores nothing: the step in which it fails changes no handle;
\* and the failure is not remembered: while the handle is unset a later
\* call checks the file again and, the file being there, runs the loader.
C36_FailureNotMemoized ==
    /\ [](\A m \in Models :
            /\ \A c \in Callers :
                 load[c].sub[m] = "failed" => load[c].obj[m] = NoHandle
            /\ ((\E c \in Callers : load[c].sub[m] = "failed")
                 /\ handle[m] = NoHandle) =>
                    FirstSegment(m) = IF FilesExist(m) THEN "awaiting"
                                      ELSE "failed")
    /\ [][\A c \in Callers, m \in Models :
            (load[c].sub[m] # "failed" /\ load'[c].sub[m] = "failed")
                => handle' = handle]_vars

\* The loader of a model raised in one call and a load call for that model
\* alone ran the loader again and stored its object.
C36_Witness ==
    \E m \in Models :
        /\ load[LifespanCaller].sub[m] = "failed"
        /\ load[LifespanCaller].exc = ModelError
        /\ load["c1"].kind = m /\ load["c1"].st = "returned"
        /\ syncRuns[m] = 2
        /\ handle[m] = <<2>> /\ load["c1"].obj[m] = <<2>>

\* A request with valid input: it passes the request model, its image
\* decodes and its arguments pass the validation of the operation.
ValidInput(in) ==
    /\ RequestModel(in.op, in.fields) = "ok"
    /\ PassesValidation(in)

\* C33: with use_mock_service on, startup loads no model, and a request to
\* /remove, /fill or /replace with valid input is answered 200 with success
\* true although no handle is set.
C33_MockServes ==
    settings.use_mock_service =>
        /\ load[LifespanCaller].st = "idle"
        /\ \A m \in Models : handle[m] = NoHandle /\ syncRuns[m] = 0
        /\ \A r \in Reqs :
             (/\ Answered(r) /\ req[r].in.path = "form"
              /\ ValidInput(req[r].in)) =>
                 /\ req[r].resp.status = "200"
                 /\ req[r].resp.success = "true"

LoadFailedAtStartup ==
    ~settings.use_mock_service /\ load[LifespanCaller].st = "raised"

\* C34: when a model load fails during startup, in the environment
\* "production" startup fails and no request is ever served; in any other
\* environment the server accepts requests, a request that needs a model
\* whose handle is unset fails with ModelNotLoaded, and GET /ready answers
\* 503 while a handle is unset.
C34_StartupFailure ==
    /\ []((LoadFailedAtStartup /\ settings.environment = "production") =>
            /\ \A r \in Reqs : req[r].pc = "idle"
            /\ ready = NoReady
            /\ ~ENABLED (Serving /\ Receive("r1", StartupInputs))
            /\ ~ENABLED (Serving /\ readiness_check))
    /\ []((LoadFailedAtStartup /\ settings.environment # "production") =>
            /\ req["r1"].pc = "idle" =>
                 ENABLED (Serving /\ Receive("r1", StartupInputs))
            /\ ENABLED (Serving /\ readiness_check))
    /\ [][LoadFailedAtStartup =>
            /\ \A r \in Reqs :
                 LET q == req[r] IN
                 (/\ q.pc = "handler" /\ req'[r].pc # "handler"
                  /\ OverHttp(r) /\ ValidInput(q.in)
                  /\ \/ handle["sam"] = NoHandle
                     \/ handle[TerminalModel(q.in.op)] = NoHandle) =>
                        /\ req'[r].pc = "done" /\ req'[r].trace = <<>>
                        /\ req'[r].exc.cls = "ModelNotLoadedException"
                        /\ req'[r].resp.status = "400"
            /\ (ready' # ready /\ \E m \in Models : handle[m] = NoHandle)
                 => ready'.last = "503"]_vars

\* C37: every request that was accepted is eventually answered, whatever
\* the other request does, given that each model call handed to the worker
\* pool returns or raises; it gets one response, set in the step that ends
\* it and never changed.
C37_EveryRequestAnswered ==
    /\ \A r \in Reqs : (req[r].pc # "idle") ~> (req[r].pc = "done")
    /\ [][\A r \in Reqs :
            /\ req[r].pc = "done" => req'[r] = req[r]
            /\ req'[r].resp # req[r].resp =>
                 /\ req[r].resp = NoResp
                 /\ req[r].pc # "done" /\ req'[r].pc = "done"]_vars

\* Two requests that were in flight together have both been answered.
C37_Witness ==
    \E r1, r2 \in Reqs :
        /\ r1 # r2
        /\ req[r1].pc = "done" /\ req[r1].resp.status = "200"
        /\ req[r2].pc = "done" /\ req[r2].resp.status = "200"
        /\ r1 \in req[r2].met

====
